---- MODULE Spec2Model ----
(***************************************************************************)
(* Model of latexbiport/latexexport.py (LatexNoteExporter): the field      *)
(* transformer (replace_line_breaks, convert_html_to_latex,                *)
(* strip_new_lines, escape_latex_chars), the per-note assembly and the     *)
(* export run (db_query, the row loop, the document, the file write, the   *)
(* success callback).                                                      *)
(*                                                                         *)
(* A Python str is a sequence of one-character strings.  A fixed LaTeX     *)
(* word the exporter itself emits (\begin{note}, \xplain{, \textbf{, ...)  *)
(* is written as one element of the sequence: such a word holds none of    *)
(* the characters any pattern of the program inspects (< > [ ] & newline,  *)
(* white space), so it behaves in every later step as a run of ordinary    *)
(* characters.                                                             *)
(***************************************************************************)
EXTENDS Integers, Sequences, FiniteSets, TLC

\* ------------------------------------------------------------------ bounds
\* longest field, in tokens, of the field-level specifications
MaxTokens == 3
\* most rows the database cursor yields in one export
MaxRecords == 2

\* ------------------------------------------------------------ str helpers
NL == "\n"
SP == " "
\* Python's \s and str.strip() white space, restricted to the alphabet used
IsSpace(c) == c \in {SP, NL}

StartsWith(s, i, lit) ==
    /\ i >= 1
    /\ i + Len(lit) - 1 <= Len(s)
    /\ SubSeq(s, i, i + Len(lit) - 1) = lit

\* s.find(lit) != -1
Contains(s, lit) == \E i \in 1..Len(s) : StartsWith(s, i, lit)

\* sep.join(parts)
RECURSIVE StrJoin(_, _)
StrJoin(sep, parts) ==
    IF parts = <<>> THEN <<>>
    ELSE IF Len(parts) = 1 THEN parts[1]
    ELSE parts[1] \o sep \o StrJoin(sep, Tail(parts))

\* str.replace(k, v): left to right, non-overlapping, one pass
RECURSIVE ReplaceFrom(_, _, _, _)
ReplaceFrom(s, i, k, v) ==
    IF i > Len(s) THEN <<>>
    ELSE IF StartsWith(s, i, k) THEN v \o ReplaceFrom(s, i + Len(k), k, v)
    ELSE <<s[i]>> \o ReplaceFrom(s, i + 1, k, v)

str_replace(s, k, v) == ReplaceFrom(s, 1, k, v)

\* smallest element of a non-empty set of indices, 0 for the empty set
MinOr0(S) == IF S = {} THEN 0 ELSE CHOOSE x \in S : \A y \in S : x <= y
MaxOr0(S) == IF S = {} THEN 0 ELSE CHOOSE x \in S : \A y \in S : x >= y

\* end of the maximal run of characters of set cs that starts at i (i - 1
\* when s[i] is not in cs)
RunEnd(s, i, cs) ==
    MaxOr0({j \in (i - 1)..Len(s) : \A k \in i..j : s[k] \in cs})

\* the characters of \s
Spaces == {SP, NL}

\* ------------------------------------------------------- literal strings
LT == "<"
GT == ">"
BR == <<"<", "b", "r", ">">>
BR_SLASH == <<"<", "b", "r", " ", "/", ">">>
DIV == <<"<", "d", "i", "v", ">">>
DIV_CLOSE == <<"<", "/", "d", "i", "v", ">">>
NBSP == <<"&", "n", "b", "s", "p", ";">>
AMP == <<"&", "a", "m", "p", ";">>
LT_ENT == <<"&", "l", "t", ";">>
GT_ENT == <<"&", "g", "t", ";">>
LATEX_OPEN == <<"[", "l", "a", "t", "e", "x", "]">>
LATEX_CLOSE == <<"[", "/", "l", "a", "t", "e", "x", "]">>
UL == <<"<", "u", "l">>
UL_CLOSE == <<"<", "/", "u", "l", ">">>
OL == <<"<", "o", "l">>
OL_CLOSE == <<"<", "/", "o", "l", ">">>
LI == <<"<", "l", "i">>
LI_CLOSE == <<"<", "/", "l", "i", ">">>
B_OPEN == <<"<", "b", ">">>
B_CLOSE == <<"<", "/", "b", ">">>
I_OPEN == <<"<", "i", ">">>
I_CLOSE == <<"<", "/", "i", ">">>
U_OPEN == <<"<", "u", ">">>
U_CLOSE == <<"<", "/", "u", ">">>
SUB_OPEN == <<"<", "s", "u", "b", ">">>
SUB_CLOSE == <<"<", "/", "s", "u", "b", ">">>
SUP_OPEN == <<"<", "s", "u", "p", ">">>
SUP_CLOSE == <<"<", "/", "s", "u", "p", ">">>
\* TAB = "    "
TAB == <<" ", " ", " ", " ">>

\* --------------------------------------------------- replace_line_breaks
\* htmldict of replace_line_breaks, in insertion order (the order the for
\* loop visits it)
BreakDict ==
    << <<BR, <<NL>>>>,
       <<BR_SLASH, <<NL>>>>,
       <<DIV, <<NL>>>>,
       <<DIV_CLOSE, <<>>>>,
       <<NBSP, <<SP>>>> >>

\* for k, v in pairs: text = text.replace(k, v)
RECURSIVE ApplyPairs(_, _)
ApplyPairs(text, pairs) ==
    IF pairs = <<>> THEN text
    ELSE ApplyPairs(str_replace(text, pairs[1][1], pairs[1][2]), Tail(pairs))

\* replace_line_breaks with "</div>" deleted before the break tokens are
\* replaced
replace_line_breaks_div_first(text) ==
    ApplyPairs(str_replace(text, <<NL>>, <<>>),
               <<BreakDict[4], BreakDict[1], BreakDict[2], BreakDict[3],
                 BreakDict[5]>>)

replace_line_breaks(text) ==
    ApplyPairs(str_replace(text, <<NL>>, <<>>), BreakDict)

\* ---------------------------------------------------- the patterns
\* match of "\n\s*\n+" at i: a newline, then white space up to the last
\* newline of the white-space run that follows
MatchBlankRun(s, i) ==
    IF s[i] # NL THEN 0
    ELSE LET w == RunEnd(s, i + 1, Spaces)
         IN  MaxOr0({j \in (i + 1)..w : s[j] = NL})

\* str.strip()
Strip(s) ==
    LET keep == {i \in 1..Len(s) : ~IsSpace(s[i])}
    IN  IF keep = {} THEN <<>> ELSE SubSeq(s, MinOr0(keep), MaxOr0(keep))

\* ---------------------------------------------------- escape_latex_chars
\* "([#$%^&_}{~])"
LatexSpecial == {"#", "$", "%", "^", "&", "_", "}", "{", "~"}
MatchSpecial(s, i) == IF s[i] \in LatexSpecial THEN i ELSE 0

\* ------------------------------------------------- convert_html_to_latex
EntityDict == << <<AMP, <<"&">>>>, <<LT_ENT, <<LT>>>>, <<GT_ENT, <<GT>>>> >>

\* "\n*\[latex\]": the newlines right before the sentinel, and the sentinel
MatchLatexOpen(s, i) ==
    LET j == RunEnd(s, i, {NL}) + 1
    IN  IF StartsWith(s, j, LATEX_OPEN) THEN j + Len(LATEX_OPEN) - 1 ELSE 0

\* "\[/latex\]\n*": the sentinel and the newlines right after it
MatchLatexClose(s, i) ==
    IF StartsWith(s, i, LATEX_CLOSE)
    THEN RunEnd(s, i + Len(LATEX_CLOSE), {NL})
    ELSE 0

\* "<ul.*?>" and the like: the prefix, then up to the first ">" with no
\* newline on the way ("." does not match a newline)
MatchOpenTag(prefix, s, i) ==
    IF ~StartsWith(s, i, prefix) THEN 0
    ELSE LET from == i + Len(prefix)
             j == MinOr0({k \in from..Len(s) : s[k] = GT})
         IN  IF j # 0 /\ \A k \in from..(j - 1) : s[k] # NL THEN j ELSE 0

MatchUl(s, i) == MatchOpenTag(UL, s, i)
MatchOl(s, i) == MatchOpenTag(OL, s, i)
MatchLi(s, i) == MatchOpenTag(LI, s, i)

\* a literal pattern
MatchLit(lit, s, i) == IF StartsWith(s, i, lit) THEN i + Len(lit) - 1 ELSE 0
MatchUlClose(s, i) == MatchLit(UL_CLOSE, s, i)
MatchOlClose(s, i) == MatchLit(OL_CLOSE, s, i)
MatchLiClose(s, i) == MatchLit(LI_CLOSE, s, i)

\* "<b>(.*?)</b>" and the like: the opening tag, then up to the first
\* closing tag with no newline on the way
MatchPair(open, close, s, i) ==
    IF ~StartsWith(s, i, open) THEN 0
    ELSE LET from == i + Len(open)
             j == MinOr0({k \in from..Len(s) :
                            /\ StartsWith(s, k, close)
                            /\ \A n \in from..(k - 1) : s[n] # NL})
         IN  IF j = 0 THEN 0 ELSE j + Len(close) - 1

\* group 1 of such a match
Inner(open, close, m) == SubSeq(m, Len(open) + 1, Len(m) - Len(close))

MatchB(s, i) == MatchPair(B_OPEN, B_CLOSE, s, i)
MatchI(s, i) == MatchPair(I_OPEN, I_CLOSE, s, i)
MatchU(s, i) == MatchPair(U_OPEN, U_CLOSE, s, i)
MatchSub(s, i) == MatchPair(SUB_OPEN, SUB_CLOSE, s, i)
MatchSup(s, i) == MatchPair(SUP_OPEN, SUP_CLOSE, s, i)

\* "<[^<]+?>": "<", one or more characters other than "<" (a newline or a
\* ">" among them), up to the first ">" that ends them
MatchAnyTag(s, i) ==
    IF s[i] # LT THEN 0
    ELSE LET j == MinOr0({k \in (i + 2)..Len(s) : s[k] = GT})
         IN  IF j # 0 /\ \A k \in (i + 1)..(j - 1) : s[k] # LT THEN j ELSE 0

\* ------------------------------------------------------------- re.sub
\* the patterns of the program, by name: Match(p, s, i) is the index of the
\* last character of the match of pattern p that starts at i, or 0 when p
\* does not match at i
Match(p, s, i) ==
    CASE p = "blank_run" -> MatchBlankRun(s, i)
      [] p = "special" -> MatchSpecial(s, i)
      [] p = "latex_open" -> MatchLatexOpen(s, i)
      [] p = "latex_close" -> MatchLatexClose(s, i)
      [] p = "ul" -> MatchUl(s, i)
      [] p = "ul_close" -> MatchUlClose(s, i)
      [] p = "ol" -> MatchOl(s, i)
      [] p = "ol_close" -> MatchOlClose(s, i)
      [] p = "li" -> MatchLi(s, i)
      [] p = "li_close" -> MatchLiClose(s, i)
      [] p = "b" -> MatchB(s, i)
      [] p = "i" -> MatchI(s, i)
      [] p = "u" -> MatchU(s, i)
      [] p = "sub" -> MatchSub(s, i)
      [] p = "sup" -> MatchSup(s, i)
      [] p = "any_tag" -> MatchAnyTag(s, i)

\* group 1 of a match m of pattern p (the patterns with a group)
Group1(p, m) ==
    CASE p = "b" -> Inner(B_OPEN, B_CLOSE, m)
      [] p = "i" -> Inner(I_OPEN, I_CLOSE, m)
      [] p = "u" -> Inner(U_OPEN, U_CLOSE, m)
      [] p = "sub" -> Inner(SUB_OPEN, SUB_CLOSE, m)
      [] p = "sup" -> Inner(SUP_OPEN, SUP_CLOSE, m)
      [] p = "special" -> m
      [] OTHER -> <<>>

\* the replacement template repl with its element "\\1" replaced by group g
RECURSIVE Expand(_, _)
Expand(repl, g) ==
    IF repl = <<>> THEN <<>>
    ELSE (IF Head(repl) = "\\1" THEN g ELSE <<Head(repl)>>)
             \o Expand(Tail(repl), g)

\* re.sub(p, repl, s) for a pattern that matches no empty string: the scan
\* goes left to right and resumes right after each match
RECURSIVE ReSubFrom(_, _, _, _)
ReSubFrom(p, repl, s, i) ==
    IF i > Len(s) THEN <<>>
    ELSE LET e == Match(p, s, i)
         IN  IF e = 0 THEN <<s[i]>> \o ReSubFrom(p, repl, s, i + 1)
             ELSE Expand(repl, Group1(p, SubSeq(s, i, e)))
                      \o ReSubFrom(p, repl, s, i + 1 + (e - i))

re_sub(p, repl, s) == ReSubFrom(p, repl, s, 1)

\* ------------------------------------------------------- strip_new_lines
strip_new_lines(text) == Strip(re_sub("blank_run", <<NL, NL>>, text))

\* re.sub(r"([#$%^&_}{~])", r"\\\1", text)
escape_latex_chars(text) == re_sub("special", <<"\\", "\\1">>, text)

\* lines 189-191: the html entities
decode_entities(text) == ApplyPairs(text, EntityDict)

\* lines 193-194: the [latex] marks and the newlines touching them
remove_latex_marks(text) ==
    re_sub("latex_close", <<>>, re_sub("latex_open", <<>>, text))

\* lines 196-217: the tags
rewrite_tags(text) ==
    LET t1 == re_sub("ul", <<"\\begin{itemize}", NL>>, text)
        t2 == re_sub("ul_close", <<"\\end{itemize}">>, t1)
        t3 == re_sub("ol", <<"\\begin{enumerate}", NL>>, t2)
        t4 == re_sub("ol_close", <<"\\end{enumerate}">>, t3)
        t5 == re_sub("li", <<"\\item", SP>>, t4)
        t6 == re_sub("li_close", <<NL>>, t5)
        t7 == re_sub("b", <<"\\textbf{", "\\1", "}">>, t6)
        t8 == re_sub("i", <<"\\textit{", "\\1", "}">>, t7)
        t9 == re_sub("u", <<"\\underline{", "\\1", "}">>, t8)
        t10 == re_sub("sub", <<"\\textsubscript{", "\\1", "}">>, t9)
        t11 == re_sub("sup", <<"\\textsuperscript{", "\\1", "}">>, t10)
        t12 == re_sub("blank_run", <<NL>>, t11)
    IN  re_sub("any_tag", <<>>, t12)

convert_html_to_latex(text) ==
    rewrite_tags(remove_latex_marks(decode_entities(text)))

\* ------------------------------------------- one field of export_note_latex
\* field = TAB + TAB + field.replace("\n", "\n" + TAB + TAB), framed by
\* TAB + begin + "\n" ... "\n" + TAB + end
Block(begin, end, field) ==
    TAB \o <<begin, NL>>
        \o TAB \o TAB \o str_replace(field, <<NL>>, <<NL>> \o TAB \o TAB)
        \o <<NL>> \o TAB \o <<end>>

\* TAB + r"\xfield{" + field + "}" and TAB + r"\xplain{" + field + "}"
Inline(open, field) == TAB \o <<open>> \o field \o <<"}">>

\* render_field with the [latex] branch only removing the marks (no
\* conversion of a verbatim field)
render_field_verbatim_raw(field) ==
    IF Contains(field, LATEX_OPEN)
    THEN LET f == remove_latex_marks(field)
         IN  IF ~Contains(f, <<NL>>)
             THEN Inline("\\xfield{", f)
             ELSE Block("\\begin{field}", "\\end{field}", strip_new_lines(f))
    ELSE IF ~Contains(field, <<NL>>)
         THEN Inline("\\xplain{", field)
         ELSE Block("\\begin{plain}", "\\end{plain}",
                    strip_new_lines(convert_html_to_latex(field)))

\* render_field with the [latex] branch testing for a newline before the
\* conversion instead of after it
render_field_early_newline_test(field) ==
    IF Contains(field, LATEX_OPEN)
    THEN LET f == convert_html_to_latex(field)
         IN  IF ~Contains(field, <<NL>>)
             THEN Inline("\\xfield{", f)
             ELSE Block("\\begin{field}", "\\end{field}", strip_new_lines(f))
    ELSE IF ~Contains(field, <<NL>>)
         THEN Inline("\\xplain{", field)
         ELSE Block("\\begin{plain}", "\\end{plain}",
                    strip_new_lines(convert_html_to_latex(field)))

\* render_field with the one-line plain branch converted like the
\* multi-line one
render_field_plain_converted(field) ==
    IF Contains(field, LATEX_OPEN)
    THEN LET f == convert_html_to_latex(field)
         IN  IF ~Contains(f, <<NL>>)
             THEN Inline("\\xfield{", f)
             ELSE Block("\\begin{field}", "\\end{field}", strip_new_lines(f))
    ELSE IF ~Contains(field, <<NL>>)
         THEN Inline("\\xplain{", convert_html_to_latex(field))
         ELSE Block("\\begin{plain}", "\\end{plain}",
                    strip_new_lines(convert_html_to_latex(field)))

\* lines 73-108, on a field that went through replace_line_breaks
render_field(field) ==
    IF Contains(field, LATEX_OPEN)
    THEN LET f == convert_html_to_latex(field)
         IN  IF ~Contains(f, <<NL>>)
             THEN Inline("\\xfield{", f)
             ELSE Block("\\begin{field}", "\\end{field}", strip_new_lines(f))
    ELSE IF ~Contains(field, <<NL>>)
         THEN Inline("\\xplain{", field)
         ELSE Block("\\begin{plain}", "\\end{plain}",
                    strip_new_lines(convert_html_to_latex(field)))

\* lines 71-108: the line(s) one raw field adds to note_lines
export_field(field) == render_field(replace_line_breaks(field))

\* ------------------------------------------------------------ the inputs
\* tokens the fields of the rendering specification are built from
FieldTokens ==
    { BR, AMP, LT_ENT, LATEX_OPEN, LATEX_CLOSE, <<"x">>, <<"#">>,
      B_OPEN, B_CLOSE, LI_CLOSE, <<GT>> }

\* tokens the fields of the line-break specification are built from: the
\* five tokens of htmldict, a raw newline, and pieces of the tokens
BreakTokens ==
    { BR, BR_SLASH, DIV, DIV_CLOSE, NBSP, <<NL>>, <<"x">>,
      <<"<", "b">>, <<"r", ">">>, <<"<", "b", "r">>, <<"/", ">">>,
      <<"&", "n", "b">>, <<"s", "p", ";">> }

\* every concatenation of at most n tokens
RECURSIVE StringsOver(_, _)
StringsOver(tokens, n) ==
    IF n = 0 THEN {<<>>}
    ELSE LET shorter == StringsOver(tokens, n - 1)
         IN  shorter \cup {t \o r : t \in tokens, r \in shorter}

\* field values of the rows of an export: an empty field, plain text, and
\* a field holding only a line break
ExportFields == { <<>>, <<"x">>, BR }

\* n.tags as stored: none, or one tag between spaces
TagStrings == { <<>>, <<SP, "t", SP>> }

\* the note types of the collection (col.models.get): the number of fields
\* of their notes, and the latexPre and latexPost of each
NoteTypeIds == {1, 2}
Models ==
    [mid \in NoteTypeIds |->
        IF mid = 1
        THEN [nfields |-> 1,
              latexPre |-> <<"\\documentclass{article}", NL, "\\begin{document}">>,
              latexPost |-> <<"\\end{document}">>]
        ELSE [nfields |-> 2,
              latexPre |-> <<"\\documentclass{book}", NL, "\\begin{document}">>,
              latexPost |-> <<"\\clearpage", NL, "\\end{document}">>]]

\* the separator of n.flds
US == "\\x1f"

\* the rows the cursor can yield as its k-th row: a note of either type,
\* with as many fields as its type has
RowsOfType(k, mid) ==
    { [note_id |-> 9 + k,
       flds |-> StrJoin(<<US>>, fs),
       tags |-> tg,
       notetype_id |-> mid] :
        tg \in TagStrings, fs \in [1..Models[mid].nfields -> ExportFields] }

RowsAt(k) == UNION {RowsOfType(k, mid) : mid \in NoteTypeIds}

\* options.limit: the two supported kinds and another one
Limits ==
    { [kind |-> "DeckIdLimit", deck_id |-> 1, note_ids |-> <<>>],
      [kind |-> "NoteIdsLimit", deck_id |-> 0, note_ids |-> <<10>>],
      [kind |-> "NoteIdsLimit", deck_id |-> 0, note_ids |-> <<10, 11>>],
      [kind |-> "ExportLimit", deck_id |-> 0, note_ids |-> <<>>] }

\* ---------------------------------------------------------------- state
VARIABLES
    \* field-level: the raw field, how far it got, the field after
    \* replace_line_breaks, the line(s) appended to note_lines
    field, fpc, normalized, line,
    \* the export run: position in export / export_note_latex
    pc,
    \* options.limit, options.include_guid, options.include_tags
    limit, include_guid, include_tags,
    \* the query db_query returned
    query,
    \* the rows the cursor has yielded so far, in order
    fetched,
    \* the loop variables of the current row, note_lines, model
    \* (<<>> while unbound, else <<the model>>), notes
    note_lines, model, notes,
    \* self.count (<<>> while unset), out (<<>> while unbound)
    count, out,
    \* the output file: whether open() was called, the number of
    \* file.write calls, the text written
    file,
    \* the exception that ended the operation, "" if none
    error,
    \* what the host saw: exporter_will_export, exporter_did_export, the
    \* count shown by tooltip (<<>> if none)
    gui

fieldVars == <<field, fpc, normalized, line>>
runVars == <<pc, limit, include_guid, include_tags, query, fetched,
             note_lines, model, notes, count, out, file, error, gui>>
vars == <<field, fpc, normalized, line, pc, limit, include_guid,
          include_tags, query, fetched, note_lines, model, notes, count,
          out, file, error, gui>>

\* ------------------------------------------------------ small functions
Digits == <<"0", "1", "2", "3", "4", "5", "6", "7", "8", "9">>

\* str(n) of a natural number
RECURSIVE Str(_)
Str(n) == IF n < 10 THEN <<Digits[n + 1]>>
          ELSE Str(n \div 10) \o <<Digits[(n % 10) + 1]>>

\* repr of tuple(ids): "()", "(10,)", "(10, 11)"
TupleRepr(ids) ==
    <<"(">> \o StrJoin(<<",", SP>>, [i \in 1..Len(ids) |-> Str(ids[i])])
            \o (IF Len(ids) = 1 THEN <<",">> ELSE <<>>) \o <<")">>

\* flds.split("\x1f")
RECURSIVE split_fields(_)
split_fields(flds) ==
    LET cut == MinOr0({i \in 1..Len(flds) : flds[i] = US})
    IN  IF cut = 0 THEN <<flds>>
        ELSE <<SubSeq(flds, 1, cut - 1)>>
                 \o split_fields(SubSeq(flds, cut + 1, Len(flds)))

\* the query of db_query for a supported limit
DeckQuery(deck_id) ==
    <<"SELECT n.guid, n.id, n.flds, n.tags, n.mid FROM notes n JOIN cards c ON n.id = c.nid WHERE c.did IN (SELECT id FROM decks WHERE name LIKE (SELECT name FROM decks WHERE id=">>
        \o Str(deck_id) \o <<")", SP, "||", SP, "'%'", ")">>

NotesQuery(note_ids) ==
    <<"SELECT n.guid, n.id, n.flds, n.tags, n.mid FROM notes n JOIN cards c ON n.id = c.nid WHERE n.id IN ">>
        \o TupleRepr(note_ids)

\* db_query falling back to the deck query for a limit of another kind
db_query_silent_fallback(lim) ==
    IF lim.kind = "NoteIdsLimit" THEN <<NotesQuery(lim.note_ids)>>
    ELSE <<DeckQuery(lim.deck_id)>>

\* db_query: <<the query>>, or <<>> when it raises
db_query(lim) ==
    IF lim.kind = "DeckIdLimit" THEN <<DeckQuery(lim.deck_id)>>
    ELSE IF lim.kind = "NoteIdsLimit" THEN <<NotesQuery(lim.note_ids)>>
    ELSE <<>>

\* col.db.execute: SQL does not take the trailing comma Python puts in the
\* repr of a one-element tuple
SqlAccepted(q) == ~Contains(q, <<",", ")">>)

\* the line the trim loop removes: TAB + r"\xplain{}"
EmptyPlainLine == TAB \o <<"\\xplain{", "}">>

\* the test of the while loop comparing lengths instead of lines
is_trailing_empty_by_length(l) == Len(l) <= Len(EmptyPlainLine)

\* the test of the while loop looking for the marker without its indent
is_trailing_empty_no_indent(l) == l = <<"\\xplain{", "}">>

\* the test of the while loop at line 110
is_trailing_empty(l) == l = EmptyPlainLine

\* model bound by the first row only
bind_model_first_row_only(bound, notetype_id) ==
    IF bound = <<>> THEN <<Models[notetype_id]>> ELSE bound

\* line 62: model = col.models.get(notetype_id), rebound by every row
bind_model(bound, notetype_id) == <<Models[notetype_id]>>

\* lines 64-108: note_lines after the fields of a row were appended
FieldLines(fields) == [i \in 1..Len(fields) |-> export_field(fields[i])]

IdentifierLine(note_id) ==
    <<"\\xplain{">> \o escape_latex_chars(Str(note_id)) \o <<"}">>

InitialNoteLines(r, guid) ==
    << <<"\\begin{note}">> >>
        \o (IF guid THEN <<IdentifierLine(r.note_id)>> ELSE <<>>)
        \o FieldLines(split_fields(r.flds))

\* lines 113-116: the tags line, if any
TagsLines(tags, with_tags) ==
    IF with_tags /\ Strip(tags) # <<>>
    THEN << TAB \o <<"\\tags{">> \o Strip(tags) \o <<"}">> >>
    ELSE <<>>

\* lines 121-128
Header == <<"% -*- coding: utf-8 -*-", NL>>

\* the document with the last block left out
Document_without_last_block(m, blocks) ==
    Header \o m.latexPre \o <<NL>>
           \o StrJoin(<<NL>>, SubSeq(blocks, 1, Len(blocks) - 1)) \o <<NL>>
           \o m.latexPost

Document(m, blocks) ==
    Header \o m.latexPre \o <<NL>> \o StrJoin(<<NL>>, blocks) \o <<NL>>
           \o m.latexPost

\* ------------------------------------------------- field-level actions
FieldIdle ==
    /\ field = <<>> /\ fpc = "off" /\ normalized = <<>> /\ line = <<>>

RunIdle ==
    /\ pc = "off"
    /\ limit = [kind |-> "DeckIdLimit", deck_id |-> 1, note_ids |-> <<>>]
    /\ include_guid = FALSE /\ include_tags = FALSE
    /\ query = <<>> /\ fetched = <<>> /\ note_lines = <<>>
    /\ model = <<>> /\ notes = <<>> /\ count = <<>> /\ out = <<>>
    /\ file = [opened |-> FALSE, writes |-> 0, text |-> <<>>]
    /\ error = ""
    /\ gui = [will_export |-> FALSE, did_export |-> FALSE, tooltip |-> <<>>]

\* line 71: field = self.replace_line_breaks(field)
ReplaceLineBreaks ==
    /\ fpc = "raw"
    /\ normalized' = replace_line_breaks(field)
    /\ fpc' = "normalized"
    /\ UNCHANGED <<field, line>>
    /\ UNCHANGED runVars

\* lines 73-108: the field is rendered and appended
RenderField ==
    /\ fpc = "normalized"
    /\ line' = render_field(normalized)
    /\ fpc' = "rendered"
    /\ UNCHANGED <<field, normalized>>
    /\ UNCHANGED runVars

\* ------------------------------------------------------- the export run
\* export (lines 30-46): the will-export hook, then the operation starts
Export ==
    /\ pc = "idle"
    /\ gui' = [gui EXCEPT !.will_export = TRUE]
    /\ pc' = "query"
    /\ UNCHANGED <<limit, include_guid, include_tags, query, fetched,
                   note_lines, model, notes, count, out, file, error>>
    /\ UNCHANGED fieldVars

\* lines 59 and 132-154: db_query(options.limit) returns or raises
DbQuery ==
    /\ pc = "query"
    /\ LET q == db_query(limit)
       IN  IF q = <<>>
           THEN /\ error' = "Exception"
                /\ pc' = "failed"
                /\ UNCHANGED query
           ELSE /\ query' = q[1]
                /\ pc' = "execute"
                /\ UNCHANGED error
    /\ UNCHANGED <<limit, include_guid, include_tags, fetched, note_lines,
                   model, notes, count, out, file, gui>>
    /\ UNCHANGED fieldVars

\* line 58: col.db.execute(query)
Execute ==
    /\ pc = "execute"
    /\ IF SqlAccepted(query)
       THEN pc' = "loop" /\ UNCHANGED error
       ELSE pc' = "failed" /\ error' = "DBError"
    /\ UNCHANGED <<limit, include_guid, include_tags, query, fetched,
                   note_lines, model, notes, count, out, file, gui>>
    /\ UNCHANGED fieldVars

\* lines 58-108: the cursor yields a row; the note type is looked up, the
\* begin marker, the identifier line and the fields are appended
NextRow ==
    /\ pc = "loop"
    /\ Len(fetched) < MaxRecords
    /\ \E r \in RowsAt(Len(fetched) + 1) :
        /\ fetched' = Append(fetched, r)
        /\ model' = bind_model(model, r.notetype_id)
        /\ note_lines' = InitialNoteLines(r, include_guid)
    /\ pc' = "trim"
    /\ UNCHANGED <<limit, include_guid, include_tags, query, notes, count,
                   out, file, error, gui>>
    /\ UNCHANGED fieldVars

\* lines 110-111: one test of the while loop, and its body if it holds;
\* note_lines[-1] of an empty list raises IndexError
TrimStep ==
    /\ pc = "trim"
    /\ IF note_lines = <<>>
       THEN /\ error' = "IndexError"
            /\ pc' = "failed"
            /\ UNCHANGED note_lines
       ELSE IF is_trailing_empty(note_lines[Len(note_lines)])
       THEN /\ note_lines' = SubSeq(note_lines, 1, Len(note_lines) - 1)
            /\ UNCHANGED <<pc, error>>
       ELSE /\ pc' = "tags"
            /\ UNCHANGED <<note_lines, error>>
    /\ UNCHANGED <<limit, include_guid, include_tags, query, fetched, model,
                   notes, count, out, file, gui>>
    /\ UNCHANGED fieldVars

\* lines 113-119: the tags line, the end marker, the block joined
FinishNote ==
    /\ pc = "tags"
    /\ LET r == fetched[Len(fetched)]
           all == note_lines \o TagsLines(r.tags, include_tags)
                             \o << <<"\\end{note}", NL>> >>
       IN  /\ note_lines' = all
           /\ notes' = Append(notes, StrJoin(<<NL>>, all))
    /\ pc' = "loop"
    /\ UNCHANGED <<limit, include_guid, include_tags, query, fetched, model,
                   count, out, file, error, gui>>
    /\ UNCHANGED fieldVars

\* line 58: the cursor is exhausted; line 120: self.count = len(notes)
SetCount ==
    /\ pc = "loop"
    /\ count' = <<Len(notes)>>
    /\ pc' = "build"
    /\ UNCHANGED <<limit, include_guid, include_tags, query, fetched,
                   note_lines, model, notes, out, file, error, gui>>
    /\ UNCHANGED fieldVars

\* BuildDocument with a model bound before the loop (no preamble, no
\* postamble)
BuildDocument_model_prebound ==
    /\ pc = "build"
    /\ IF model = <<>>
       THEN out' = <<Document([latexPre |-> <<>>, latexPost |-> <<>>], notes)>>
       ELSE out' = <<Document(model[1], notes)>>
    /\ pc' = "write"
    /\ UNCHANGED <<limit, include_guid, include_tags, query, fetched,
                   note_lines, model, notes, count, file, error, gui>>
    /\ UNCHANGED fieldVars

\* lines 121-128: out is built; model is unbound if the loop never ran
BuildDocument ==
    /\ pc = "build"
    /\ IF model = <<>>
       THEN /\ error' = "UnboundLocalError"
            /\ pc' = "failed"
            /\ UNCHANGED out
       ELSE /\ out' = <<Document(model[1], notes)>>
            /\ pc' = "write"
            /\ UNCHANGED error
    /\ UNCHANGED <<limit, include_guid, include_tags, query, fetched,
                   note_lines, model, notes, count, file, gui>>
    /\ UNCHANGED fieldVars

\* lines 129-130: the file is opened for writing and out is written
WriteFile ==
    /\ pc = "write"
    /\ file' = [opened |-> TRUE, writes |-> file.writes + 1, text |-> out[1]]
    /\ pc' = "returned"
    /\ UNCHANGED <<limit, include_guid, include_tags, query, fetched,
                   note_lines, model, notes, count, out, error, gui>>
    /\ UNCHANGED fieldVars

\* lines 33-35: on_success, called when the operation returned
OnSuccess ==
    /\ pc = "returned"
    /\ gui' = [gui EXCEPT !.did_export = TRUE, !.tooltip = count]
    /\ pc' = "done"
    /\ UNCHANGED <<limit, include_guid, include_tags, query, fetched,
                   note_lines, model, notes, count, out, file, error>>
    /\ UNCHANGED fieldVars

\* -------------------------------------------------------- specifications
\* the export of a selection
Init ==
    /\ FieldIdle
    /\ pc = "idle"
    /\ limit \in Limits
    /\ include_guid \in BOOLEAN
    /\ include_tags \in BOOLEAN
    /\ query = <<>> /\ fetched = <<>> /\ note_lines = <<>>
    /\ model = <<>> /\ notes = <<>> /\ count = <<>> /\ out = <<>>
    /\ file = [opened |-> FALSE, writes |-> 0, text |-> <<>>]
    /\ error = ""
    /\ gui = [will_export |-> FALSE, did_export |-> FALSE, tooltip |-> <<>>]

Next ==
    \/ Export
    \/ DbQuery
    \/ Execute
    \/ NextRow
    \/ TrimStep
    \/ FinishNote
    \/ SetCount
    \/ BuildDocument
    \/ WriteFile
    \/ OnSuccess

Spec == Init /\ [][Next]_vars

\* one field through lines 71-108
InitField ==
    /\ RunIdle
    /\ field \in StringsOver(FieldTokens, MaxTokens)
    /\ fpc = "raw"
    /\ normalized = <<>>
    /\ line = <<>>

NextField == ReplaceLineBreaks \/ RenderField

SpecField == InitField /\ [][NextField]_vars

\* one field through replace_line_breaks
InitBreaks ==
    /\ RunIdle
    /\ field \in StringsOver(BreakTokens, MaxTokens)
    /\ fpc = "raw"
    /\ normalized = <<>>
    /\ line = <<>>

NextBreaks == ReplaceLineBreaks

SpecBreaks == InitBreaks /\ [][NextBreaks]_vars

\* ================================================================ claims
\* number of (possibly overlapping) occurrences of lit in s
Occurrences(s, lit) == Cardinality({i \in 1..Len(s) : StartsWith(s, i, lit)})

\* the strings of ss one after the other
RECURSIVE Concat(_)
Concat(ss) == IF ss = <<>> THEN <<>> ELSE Head(ss) \o Concat(Tail(ss))

HasLatex(t) == Contains(t, LATEX_OPEN)
HasNewline(t) == Contains(t, <<NL>>)
Rendered == fpc = "rendered"

\* the wrapper of a rendered field: the word after the indent
WrapperOf(l) == l[Len(TAB) + 1]

\* ---------------------------------------------------------------- C1
\* a verbatim field as the claim has it: only the marks and the newlines
\* touching them removed, then wrapped
VerbatimUntouched(t) ==
    LET f == remove_latex_marks(t)
    IN  IF ~HasNewline(f)
        THEN TAB \o <<"\\xfield{">> \o f \o <<"}">>
        ELSE Block("\\begin{field}", "\\end{field}", strip_new_lines(f))

\* C1 as stated: the rendering of a field that contains [latex] is the
\* output of line-break normalization with only the [latex] and [/latex]
\* marks and the newlines touching them removed: no entity is decoded, no
\* tag is rewritten, no <...> fragment is stripped.
C1_VerbatimContentUnchanged ==
    (Rendered /\ HasLatex(normalized)) => line = VerbatimUntouched(normalized)

\* C1 as amended: the rendering of a field that contains [latex] is the
\* wrapped convert_html_to_latex of the normalized field: the entities are
\* decoded, then the marks and the newlines touching them are removed, then
\* the tags are rewritten, newline runs collapsed and what is left of
\* <...> stripped.
C1_VerbatimContentConverted ==
    (Rendered /\ HasLatex(normalized)) =>
        LET f == rewrite_tags(remove_latex_marks(decode_entities(normalized)))
        IN  line = (IF ~HasNewline(f)
                    THEN TAB \o <<"\\xfield{">> \o f \o <<"}">>
                    ELSE TAB \o <<"\\begin{field}", NL>> \o TAB \o TAB
                             \o str_replace(strip_new_lines(f), <<NL>>,
                                            <<NL>> \o TAB \o TAB)
                             \o <<NL>> \o TAB \o <<"\\end{field}">>)

\* C1 witness: a verbatim field with an entity and a tag was rendered
C1_Witness ==
    /\ Rendered
    /\ HasLatex(normalized)
    /\ Contains(normalized, AMP)
    /\ Contains(normalized, B_OPEN)

\* ---------------------------------------------------------------- C2
ExpectedWrapper(latex, newline) ==
    IF latex THEN (IF newline THEN "\\begin{field}" ELSE "\\xfield{")
    ELSE (IF newline THEN "\\begin{plain}" ELSE "\\xplain{")

OneLineWrapper(w) == w \in {"\\xfield{", "\\xplain{"}

\* C2 as stated: the wrapper is decided by whether the field after
\* replace_line_breaks contains [latex] and whether it contains a newline.
C2_WrapperByNormalizedField ==
    Rendered =>
        WrapperOf(line) = ExpectedWrapper(HasLatex(normalized), HasNewline(normalized))

\* C2 as amended: the wrapper is decided by whether the field after
\* replace_line_breaks contains [latex], and by whether a newline is in the
\* field after convert_html_to_latex when it does, in the field after
\* replace_line_breaks when it does not; a one-line wrapper holds no
\* newline and a block does.
C2_WrapperByConvertedField ==
    Rendered =>
        LET tested == IF HasLatex(normalized)
                      THEN convert_html_to_latex(normalized)
                      ELSE normalized
        IN  /\ WrapperOf(line) = ExpectedWrapper(HasLatex(normalized), HasNewline(tested))
            /\ OneLineWrapper(WrapperOf(line)) <=> ~HasNewline(line)

\* C2 witness: a verbatim field whose newline was next to the mark, so that
\* the conversion removed it
C2_Witness ==
    /\ Rendered
    /\ HasLatex(normalized)
    /\ HasNewline(normalized)
    /\ WrapperOf(line) = "\\xfield{"

\* ---------------------------------------------------------------- C3
\* C3: a field that after line-break normalization holds neither [latex]
\* nor a newline is emitted as the indent, \xplain{, the normalized field
\* and }: no entity decoded, no tag rewritten or stripped, no character
\* escaped.
C3_SingleLinePlainUntouched ==
    (Rendered /\ ~HasLatex(normalized) /\ ~HasNewline(normalized)) =>
        line = <<SP, SP, SP, SP, "\\xplain{">> \o normalized \o <<"}">>

\* C3 witness: such a field with an entity, a tag and a special character
C3_Witness ==
    /\ Rendered
    /\ ~HasLatex(normalized)
    /\ ~HasNewline(normalized)
    /\ Contains(field, AMP)
    /\ Contains(field, B_OPEN)
    /\ Contains(field, <<"#">>)
    /\ line = <<SP, SP, SP, SP, "\\xplain{">> \o field \o <<"}">>

\* ---------------------------------------------------------------- C9
\* the text replace_line_breaks starts its replacements from
WithoutNewlines(t) == str_replace(t, <<NL>>, <<>>)

\* the five replacements in every order
AllOrders ==
    {[i \in 1..5 |-> BreakDict[p[i]]] : p \in Permutations(1..5)}

\* the three replacements by a newline in every order, then "</div>", then
\* "&nbsp;"
NewlineTokenOrders ==
    {[i \in 1..5 |-> BreakDict[IF i <= 3 THEN p[i] ELSE i]] :
        p \in Permutations(1..3)}

\* C9 as stated: every order of the five replacements gives the result of
\* replace_line_breaks.
C9_AnyOrderSameResult ==
    fpc = "normalized" =>
        \A order \in AllOrders :
            ApplyPairs(WithoutNewlines(field), order) = normalized

\* C9 as amended: the three replacements by a newline (<br>, <br />, <div>)
\* give the result of replace_line_breaks in every order among themselves
\* when the deletion of </div> and then the replacement of &nbsp; follow
\* them; the deletion of </div> and the replacement of &nbsp; can complete
\* a token, so their place matters.
C9_NewlineTokensCommute ==
    fpc = "normalized" =>
        \A order \in NewlineTokenOrders :
            ApplyPairs(WithoutNewlines(field), order) = normalized

\* C9 witness: a field with two different break tokens and a </div> went
\* through replace_line_breaks
C9_Witness ==
    /\ fpc = "normalized"
    /\ Contains(field, BR)
    /\ Contains(field, DIV)
    /\ Contains(field, DIV_CLOSE)
    /\ Occurrences(normalized, <<NL>>) = 2

\* ------------------------------------------------- the export run: claims
Last(q) == q[Len(q)]
Fields(r) == split_fields(r.flds)
Written == file.writes > 0
GuidLines == IF include_guid THEN 1 ELSE 0

\* lines without the trailing empty one-line plain markers
RECURSIVE WithoutTrailingEmpty(_)
WithoutTrailingEmpty(lines) ==
    IF lines # <<>> /\ Last(lines) = TAB \o <<"\\xplain{", "}">>
    THEN WithoutTrailingEmpty(SubSeq(lines, 1, Len(lines) - 1))
    ELSE lines

\* the block of a row, from the steps of the assembly: begin marker,
\* identifier line, field lines, trailing empty plain lines dropped, tags
\* line, end marker and a newline
BlockOf(r) ==
    StrJoin(<<NL>>,
            WithoutTrailingEmpty(InitialNoteLines(r, include_guid))
                \o TagsLines(r.tags, include_tags)
                \o << <<"\\end{note}", NL>> >>)

MinimalBlock == <<"\\begin{note}", NL, "\\end{note}", NL>>

\* the place of the last character of block b before its tags line, or
\* before its end marker if it has no tags line
FieldsEnd(b) ==
    LET t == MinOr0({i \in 1..Len(b) : b[i] = "\\tags{"})
    IN  IF t # 0 THEN t - Len(TAB) - 2 ELSE Len(b) - 3

\* block b has line l as its last line before the tags line or the end
\* marker
EndsFieldsWith(b, l) ==
    LET e == FieldsEnd(b)
    IN  StartsWith(b, e - Len(l), <<NL>> \o l)

\* ---------------------------------------------------------------- C4
\* the renderings of a field with empty content
EmptyRenderings ==
    { Inline("\\xplain{", <<>>), Inline("\\xfield{", <<>>),
      Block("\\begin{plain}", "\\end{plain}", <<>>),
      Block("\\begin{field}", "\\end{field}", <<>>) }

\* C4 as stated: in every finalized block the last line before the tags
\* line and the end marker is never a field rendered with empty content.
C4_NoTrailingEmptyRendering ==
    \A i \in 1..Len(notes) :
        \A e \in EmptyRenderings : ~EndsFieldsWith(notes[i], e)

\* C4 as amended: in every finalized block, for every setting of
\* include_guid and include_tags, the last line before the tags line and
\* the end marker is never the empty one-line plain marker TAB + \xplain{}
\* (the only rendering the trim loop removes); a last field rendered as
\* anything else, an empty multi-line block included, is the last line of
\* the block just finalized.
C4_NoTrailingEmptyPlainLine ==
    /\ \A i \in 1..Len(notes) :
        ~EndsFieldsWith(notes[i], TAB \o <<"\\xplain{", "}">>)
    /\ pc = "tags" => Last(note_lines) # TAB \o <<"\\xplain{", "}">>
    /\ (pc = "loop" /\ notes # <<>>) =>
        LET l == export_field(Last(Fields(Last(fetched))))
        IN  l # TAB \o <<"\\xplain{", "}">> => EndsFieldsWith(Last(notes), l)

\* C4 witness: a block was finalized, with identifier and tags line, for a
\* record whose last field is empty and whose first is not
C4_Witness ==
    /\ Len(notes) >= 1
    /\ include_guid /\ include_tags
    /\ Fields(fetched[1]) = << <<"x">>, <<>> >>
    /\ Strip(fetched[1].tags) # <<>>

\* ---------------------------------------------------------------- C5
AllFieldsEmpty(r) == \A i \in 1..Len(Fields(r)) : Fields(r)[i] = <<>>

\* C5: the trim loop ends without an error and leaves the begin marker and
\* the identifier line in place: no IndexError is raised, each pass that
\* stays in the loop shortens note_lines, what is left is a prefix of the
\* lines of the record that holds the begin marker and the identifier
\* line, and a record whose fields are all empty, exported without
\* identifier and tags, gives the begin marker and the end marker alone.
C5_TrimLoopStopsAtBeginMarker ==
    /\ [](/\ error # "IndexError"
          /\ pc \in {"trim", "tags"} =>
                LET all == InitialNoteLines(Last(fetched), include_guid)
                IN  /\ Len(note_lines) >= 1 + GuidLines
                    /\ note_lines = SubSeq(all, 1, Len(note_lines))
                    /\ note_lines[1] = <<"\\begin{note}">>
          /\ \A i \in 1..Len(notes) :
                (AllFieldsEmpty(fetched[i]) /\ ~include_guid /\ ~include_tags)
                    => notes[i] = MinimalBlock)
    /\ [][(pc = "trim" /\ pc' = "trim")
            => Len(note_lines') < Len(note_lines)]_vars

\* C5 witness: a record of two empty fields was finalized without
\* identifier and tags
C5_Witness ==
    /\ Len(notes) >= 1
    /\ ~include_guid /\ ~include_tags
    /\ Fields(fetched[1]) = << <<>>, <<>> >>
    /\ notes[1] = MinimalBlock

\* ---------------------------------------------------------------- C6
\* C6: the written document is the encoding line, the preamble and a
\* newline, then one block per fetched row in fetch order, each followed by
\* a newline, then the postamble; self.count and the count shown are the
\* number of fetched rows.
C6_DocumentFraming ==
    /\ count # <<>> => count = <<Len(fetched)>>
    /\ gui.tooltip # <<>> => gui.tooltip = <<Len(fetched)>>
    /\ Written =>
        LET m == Models[Last(fetched).notetype_id]
        IN  /\ Len(notes) = Len(fetched)
            /\ file.text =
                 Header \o m.latexPre \o <<NL>>
                   \o Concat([i \in 1..Len(fetched) |->
                                 BlockOf(fetched[i]) \o <<NL>>])
                   \o m.latexPost

\* C6 witness: two rows were written, the first one as a minimal block, the
\* second one not
C6_Witness ==
    /\ Written
    /\ Len(fetched) = 2
    /\ notes[1] = MinimalBlock
    /\ notes[2] # MinimalBlock
    /\ gui.tooltip = <<2>>

\* ---------------------------------------------------------------- C7
\* C7: with a limit that is neither a DeckIdLimit nor a NoteIdsLimit the
\* run fails in db_query, before a row is fetched or assembled, and the
\* file is never opened or written; a run that writes does it once, with
\* the cursor exhausted and every fetched row assembled into the document
\* that is written.
C7_UnsupportedLimitFailsFast ==
    /\ limit.kind \notin {"DeckIdLimit", "NoteIdsLimit"} =>
        /\ fetched = <<>> /\ notes = <<>> /\ note_lines = <<>>
        /\ ~file.opened /\ file.writes = 0
        /\ pc \in {"idle", "query", "failed"}
        /\ pc = "failed" => error = "Exception"
    /\ file.opened =>
        /\ file.writes = 1
        /\ pc \in {"returned", "done"}
        /\ Len(notes) = Len(fetched)
        /\ out = <<file.text>>
        /\ file.text = Document(model[1], notes)

\* C7 witness: a run with another kind of limit has failed
C7_Witness ==
    /\ limit.kind = "ExportLimit"
    /\ pc = "failed"
    /\ error = "Exception"
    /\ gui.will_export

\* ---------------------------------------------------------------- C8
EndsWith(s, lit) == StartsWith(s, Len(s) - Len(lit) + 1, lit)

\* C8: the written document holds one preamble, right after the encoding
\* line, and one postamble, at its end, both of the note type of the last
\* fetched row; the preamble of another note type is not in it.
C8_FramingFromLastSchema ==
    Written =>
        LET m == Models[Last(fetched).notetype_id]
        IN  /\ StartsWith(file.text, 1, Header \o m.latexPre \o <<NL>>)
            /\ EndsWith(file.text, <<NL>> \o m.latexPost)
            /\ Occurrences(file.text, m.latexPre) = 1
            /\ Occurrences(file.text, m.latexPost) = 1
            /\ \A mid \in NoteTypeIds :
                 Models[mid] # m => ~Contains(file.text, Models[mid].latexPre)

\* C8 witness: rows of two note types were written
C8_Witness ==
    /\ Written
    /\ Len(fetched) = 2
    /\ fetched[1].notetype_id # fetched[2].notetype_id

\* ---------------------------------------------------------------- C10
\* C10: when the cursor yields no row for a supported limit, self.count is
\* set to 0, building the document raises because model is unbound, the
\* file is neither opened nor written and on_success is not called.
C10_ZeroRecordsFails ==
    (fetched = <<>> /\ count # <<>>) =>
        /\ count = <<0>>
        /\ limit.kind \in {"DeckIdLimit", "NoteIdsLimit"}
        /\ model = <<>> /\ out = <<>>
        /\ pc \in {"build", "failed"}
        /\ pc = "failed" => error = "UnboundLocalError"
        /\ ~file.opened /\ file.writes = 0
        /\ ~gui.did_export /\ gui.tooltip = <<>>

\* C10 witness: an export of no row has failed
C10_Witness ==
    /\ fetched = <<>>
    /\ count = <<0>>
    /\ pc = "failed"
    /\ error = "UnboundLocalError"

====
